---- MODULE Spec2Model ----
(***************************************************************************)
(* Log-streaming pipeline of vercel-clone-service (Go port).               *)
(*                                                                         *)
(*   build-server-go/main.go : runBuild starts the build command, two      *)
(*       reader goroutines publish its stdout/stderr chunks with           *)
(*       publishLog on the Redis channel logs:<PROJECT_ID>, the main       *)
(*       goroutine waits for the process and uploads the artifacts.        *)
(*   api-server-go/main.go (listed in src/api-server-go/README.md from     *)
(*       line 132 on): handleWebSocket reads requests of one viewer        *)
(*       connection and starts one subscribeAndForward goroutine per       *)
(*       subscribe request; each forwarder pattern-subscribes to Redis     *)
(*       and writes every decodable payload to the viewer connection.      *)
(*                                                                         *)
(* Texts are sequences of character tokens so that formatting and JSON     *)
(* decoding are computed, not assumed.                                     *)
(***************************************************************************)
EXTENDS Integers, Sequences, FiniteSets, TLC

(***************************************************************************)
(* Bounds of the model.                                                    *)
(***************************************************************************)
MaxChunks == 2   \* SpecBuild: chunks the build command writes to stdout
MaxErrChunks == 1   \* SpecBuild: chunks the build command writes to stderr
MaxFiles == 1   \* SpecBuild: files under ./output/dist
MaxPublishErrors == 1   \* SpecBuild: Publish calls the broker rejects
MaxSubs == 2   \* SpecConn: subscribe requests accepted on the connection
FanSubs == 1   \* SpecFan: subscribe requests accepted per connection
OneSubs == 1   \* SpecOne: subscribe requests accepted on the connection
StreamChunks == 1   \* SpecConn, SpecFan: chunks written to stdout
StreamErrChunks == 0   \* SpecConn, SpecFan: chunks written to stderr
OneChunks == 2   \* SpecOne: chunks written to stdout
OneErrChunks == 1   \* SpecOne: chunks written to stderr

\* what the environment of the build server may do in a specification
FullBudget == [stdout |-> MaxChunks, stderr |-> MaxErrChunks,
               pubErrs |-> MaxPublishErrors, files |-> MaxFiles,
               texts |-> {<<"a">>, <<"a", "NL">>, <<"QT">>}]
StreamBudget == [stdout |-> StreamChunks, stderr |-> StreamErrChunks,
                 pubErrs |-> 0, files |-> 0,
                 texts |-> {<<"a">>, <<"a", "NL">>}]
OneBudget == [stdout |-> OneChunks, stderr |-> OneErrChunks,
              pubErrs |-> 0, files |-> 0,
              texts |-> {<<"a">>, <<"a", "NL">>}]

Viewers == {"v1", "v2"}
Streams == {"stdout", "stderr"}
Max(a, b) == IF a > b THEN a ELSE b
SubSlots == Max(MaxSubs, Max(FanSubs, OneSubs))
FIds == Viewers \X (1..SubSlots)

\* PROJECT_ID of the one build server of the model
projectID == "A"

\* what a viewer may name in a subscribe request
Patterns == {"logs:A", "logs:*"}

\* character tokens: "a" is an ordinary character, NL a raw newline,
\* QT a double quote, BS a backslash
NL == "NL"
QT == "QT"
BS == "BS"

VARIABLES
    \* ---- build server process
    bpc,        \* position of the main goroutine (main / runBuild / uploadFiles)
    proc,       \* the build command: "none", "running", "exit0", "exit1"
    pipe,       \* pipe[s]: chunks written by the command and not yet read
    pipeOpen,   \* pipeOpen[s]: read end of the pipe not yet closed by cmd.Wait
    rpc,        \* rpc[s]: position of the reader goroutine of stream s
    rbuf,       \* rbuf[s]: the chunk the reader has read and not yet published
    nemit,      \* nemit[s]: number of chunks the command has written to s
    nfile,      \* files of ./output/dist already walked by uploadFiles
    pubLog,     \* every Publish call of the build server, in order (history)
    puts,       \* number of successful S3 PutObject calls (history)
    \* ---- api server process
    conn,       \* conn[v]: "none", "open", "broken" (peer gone), "closed"
    hpc,        \* hpc[v]: position of handleWebSocket of connection v
    nsub,       \* nsub[v]: forwarders started for connection v
    fpc,        \* fpc[f]: position of forwarder goroutine f
    pattern,    \* pattern[f]: channel argument of subscribeAndForward
    sub,        \* sub[f]: the forwarder's pubsub is subscribed at the broker
    queue,      \* queue[f]: messages buffered in pubsub.Channel()
    cur,        \* cur[f]: message being written by the forwarder
    raced,      \* writers whose write in progress overlapped another one
    sent,       \* sent[v]: frames written to viewer v, in order (history)
    corrupt,    \* corrupt[v]: raced writes corrupted the byte stream of v
    subAt,      \* subAt[f]: Len(pubLog) when f subscribed, -1 before (history)
    req,        \* req[v]: the request handleWebSocket has read and not yet handled
    ignored,    \* ignored[v]: a request on v was ignored (history)
    lateWrite,  \* lateWrite[v]: a write was begun on v after conn.Close (history)
    crashed     \* "" or the viewer whose connection's race panicked the process

buildVars == <<bpc, proc, pipe, pipeOpen, rpc, rbuf, nemit, nfile, pubLog, puts>>
apiVars == <<conn, hpc, nsub, req, ignored, fpc, pattern, sub, cur, raced,
             sent, corrupt, subAt, lateWrite, crashed>>
vars == <<buildVars, apiVars, queue>>

(***************************************************************************)
(* Pure functions.                                                         *)
(***************************************************************************)

\* fmt.Sprintf(`{"log":"%s"}`, message): the text is pasted in unescaped
LogPayload(message) ==
    <<"{", QT, "log", QT, ":", QT>> \o message \o <<QT, "}">>

\* fmt.Sprintf("logs:%s", bs.projectID)
ChannelOf(id) == "logs:" \o id

\* Redis glob matching of PSUBSCRIBE, for the patterns of the model
Match(p, ch) == p = ch \/ p = "logs:*"

\* A JSON string literal scanned from position i (just after the opening
\* quote): decoded value and the position after the closing quote.
RECURSIVE ParseString(_, _, _)
ParseString(s, i, acc) ==
    IF i > Len(s) THEN [ok |-> FALSE, val |-> <<>>, next |-> i]
    ELSE IF s[i] = QT THEN [ok |-> TRUE, val |-> acc, next |-> i + 1]
    ELSE IF s[i] = NL THEN [ok |-> FALSE, val |-> <<>>, next |-> i]
    ELSE IF s[i] = BS
         THEN IF i + 1 <= Len(s) /\ s[i + 1] \in {QT, BS}
              THEN ParseString(s, i + 2, Append(acc, s[i + 1]))
              ELSE [ok |-> FALSE, val |-> <<>>, next |-> i]
    ELSE ParseString(s, i + 1, Append(acc, s[i]))

\* json.Unmarshal([]byte(payload), &logMsg) with LogMessage{Log `json:"log"`}
Unmarshal(payload) ==
    LET bad == [err |-> TRUE, Log |-> <<>>]
    IN  IF Len(payload) < 2 \/ payload[1] # "{" \/ payload[2] # QT THEN bad
        ELSE LET k == ParseString(payload, 3, <<>>)
             IN  IF ~k.ok \/ k.next + 1 > Len(payload) THEN bad
                 ELSE IF payload[k.next] # ":" \/ payload[k.next + 1] # QT THEN bad
                 ELSE LET v == ParseString(payload, k.next + 2, <<>>)
                      IN  IF ~v.ok \/ v.next # Len(payload) THEN bad
                          ELSE IF payload[v.next] # "}" THEN bad
                          ELSE [err |-> FALSE,
                                Log |-> IF k.val = <<"log">> THEN v.val ELSE <<>>]

Decodable(payload) == ~Unmarshal(payload).err

(***************************************************************************)
(* Build server: build-server-go/main.go                                   *)
(***************************************************************************)

BuildExited == bpc \in {"fatal_init", "fatal_start", "fatal_build",
                        "fatal_upload", "exited"}

\* Redis PUBLISH as the broker executes it: every pubsub currently subscribed
\* with a matching pattern gets the message appended to its channel buffer.
Deliver(q, ev) ==
    [f \in FIds |-> IF sub[f] /\ Match(pattern[f], ev.channel)
                    THEN Append(q[f], ev) ELSE q[f]]

\* bs.publishLog(message) called by publisher `who` for source item `src`;
\* ok = FALSE is Publish returning an error, which is only logged.
publishLog(who, src, message, ok) ==
    LET ev == [id |-> Len(pubLog) + 1, pub |-> who, src |-> src,
               channel |-> ChannelOf(projectID),
               message |-> message, payload |-> LogPayload(message), ok |-> ok]
    IN  /\ pubLog' = Append(pubLog, ev)
        /\ queue' = IF ok THEN Deliver(queue, [id |-> ev.id, channel |-> ev.channel,
                                               payload |-> ev.payload])
                    ELSE queue

\* outcomes of Publish the environment may still produce
PublishOutcomes(B) ==
    IF Cardinality({i \in 1..Len(pubLog) : ~pubLog[i].ok}) < B.pubErrs
    THEN BOOLEAN ELSE {TRUE}

\* main: NewBuildServer
NewBuildServer ==
    /\ bpc = "new"
    /\ \E okInit \in BOOLEAN :
         bpc' = IF okInit THEN "runBuild" ELSE "fatal_init"
    /\ UNCHANGED <<proc, pipe, pipeOpen, rpc, rbuf, nemit, nfile, pubLog, puts,
                   apiVars, queue>>

\* mutant of RunBuildStarted: a Publish error makes runBuild return it
RunBuildStartedStrict(B) ==
    /\ bpc = "runBuild"
    /\ \E ok \in PublishOutcomes(B) :
         /\ publishLog("main", 0, <<"Build Started...">>, ok)
         /\ bpc' = IF ok THEN "start" ELSE "fatal_build"
    /\ UNCHANGED <<proc, pipe, pipeOpen, rpc, rbuf, nemit, nfile, puts, apiVars>>

\* runBuild: publishLog("Build Started...")
RunBuildStarted(B) ==
    /\ bpc = "runBuild"
    /\ \E ok \in PublishOutcomes(B) : publishLog("main", 0, <<"Build Started...">>, ok)
    /\ bpc' = "start"
    /\ UNCHANGED <<proc, pipe, pipeOpen, rpc, rbuf, nemit, nfile, puts, apiVars>>

\* mutant of CmdStart: the reader goroutines are started before the error of
\* cmd.Start is looked at
CmdStartReaders ==
    /\ bpc = "start"
    /\ \E started \in BOOLEAN :
         /\ bpc' = IF started THEN "wait" ELSE "fatal_start"
         /\ proc' = IF started THEN "running" ELSE proc
         /\ rpc' = [s \in Streams |-> "read"]
    /\ UNCHANGED <<pipe, pipeOpen, rbuf, nemit, nfile, pubLog, puts, apiVars, queue>>

\* runBuild: StdoutPipe, StderrPipe, cmd.Start and the two `go func()`
CmdStart ==
    /\ bpc = "start"
    /\ \E started \in BOOLEAN :
         IF started
         THEN /\ bpc' = "wait"
              /\ proc' = "running"
              /\ rpc' = [s \in Streams |-> "read"]
         ELSE /\ bpc' = "fatal_start"
              /\ UNCHANGED <<proc, rpc>>
    /\ UNCHANGED <<pipe, pipeOpen, rbuf, nemit, nfile, pubLog, puts, apiVars, queue>>

\* the build command writes one chunk to its stdout or stderr
ProcWrite(s, B) ==
    /\ proc = "running"
    /\ nemit[s] < B[s]
    /\ \E t \in B.texts :
         pipe' = [pipe EXCEPT ![s] = Append(@, [k |-> nemit[s] + 1, text |-> t])]
    /\ nemit' = [nemit EXCEPT ![s] = @ + 1]
    /\ UNCHANGED <<bpc, proc, pipeOpen, rpc, rbuf, nfile, pubLog, puts, apiVars, queue>>

\* the build command exits
ProcExit ==
    /\ proc = "running"
    /\ \E st \in {"exit0", "exit1"} : proc' = st
    /\ UNCHANGED <<bpc, pipe, pipeOpen, rpc, rbuf, nemit, nfile, pubLog, puts,
                   apiVars, queue>>

\* reader goroutine: n, err := stdout.Read(buf) / stderr.Read(buf)
ReaderRead(s) ==
    /\ ~BuildExited
    /\ rpc[s] = "read"
    /\ IF ~pipeOpen[s]
       THEN \* read end closed by cmd.Wait: n = 0, err # nil, break
            /\ rpc' = [rpc EXCEPT ![s] = "done"]
            /\ UNCHANGED <<pipe, rbuf>>
       ELSE IF pipe[s] # <<>>
       THEN /\ rbuf' = [rbuf EXCEPT ![s] = Head(pipe[s])]
            /\ pipe' = [pipe EXCEPT ![s] = Tail(@)]
            /\ rpc' = [rpc EXCEPT ![s] = "publish"]
       ELSE \* empty pipe: blocks while the command runs, io.EOF afterwards
            /\ proc \in {"exit0", "exit1"}
            /\ rpc' = [rpc EXCEPT ![s] = "done"]
            /\ UNCHANGED <<pipe, rbuf>>
    /\ UNCHANGED <<bpc, proc, pipeOpen, nemit, nfile, pubLog, puts, apiVars, queue>>

\* the text a reader goroutine publishes for a chunk
ReaderMessage(s, text) == IF s = "stdout" THEN text ELSE <<"error: ">> \o text

\* reader goroutine: bs.publishLog(output), then the next loop turn
ReaderPublish(s, B) ==
    /\ ~BuildExited
    /\ rpc[s] = "publish"
    /\ \E ok \in PublishOutcomes(B) :
         publishLog(s, rbuf[s].k, ReaderMessage(s, rbuf[s].text), ok)
    /\ rpc' = [rpc EXCEPT ![s] = "read"]
    /\ UNCHANGED <<bpc, proc, pipe, pipeOpen, rbuf, nemit, nfile, puts, apiVars>>

\* one whole loop turn of a reader goroutine, from the command writing a
\* chunk to the chunk being published: the grain of the streaming
\* specifications, where only the publishes of the build server are observed
ReaderTurn(s, B) ==
    /\ ~BuildExited
    /\ proc = "running"
    /\ rpc[s] = "read"
    /\ pipeOpen[s]
    /\ pipe[s] = <<>>
    /\ nemit[s] < B[s]
    /\ \E t \in B.texts : \E ok \in PublishOutcomes(B) :
         publishLog(s, nemit[s] + 1, ReaderMessage(s, t), ok)
    /\ nemit' = [nemit EXCEPT ![s] = @ + 1]
    /\ UNCHANGED <<bpc, proc, pipe, pipeOpen, rpc, rbuf, nfile, puts, apiVars>>

\* mutant of CmdWait: the exit status of the command is not looked at
CmdWaitIgnoreStatus ==
    /\ bpc = "wait"
    /\ proc \in {"exit0", "exit1"}
    /\ pipeOpen' = [s \in Streams |-> FALSE]
    /\ bpc' = "complete"
    /\ UNCHANGED <<proc, pipe, rpc, rbuf, nemit, nfile, pubLog, puts, apiVars, queue>>

\* runBuild: cmd.Wait() returns once the command has exited; it closes the
\* read ends of both pipes; a non-zero status makes runBuild return the error
\* and main call log.Fatalf
CmdWait ==
    /\ bpc = "wait"
    /\ proc \in {"exit0", "exit1"}
    /\ pipeOpen' = [s \in Streams |-> FALSE]
    /\ bpc' = IF proc = "exit0" THEN "complete" ELSE "fatal_build"
    /\ UNCHANGED <<proc, pipe, rpc, rbuf, nemit, nfile, pubLog, puts, apiVars, queue>>

\* runBuild: publishLog("Build Complete")
PublishComplete(B) ==
    /\ bpc = "complete"
    /\ \E ok \in PublishOutcomes(B) : publishLog("main", 0, <<"Build Complete">>, ok)
    /\ bpc' = "upload"
    /\ UNCHANGED <<proc, pipe, pipeOpen, rpc, rbuf, nemit, nfile, puts, apiVars>>

\* mutant of UploadStart: uploadFiles is called as soon as cmd.Wait has
\* returned without error, before "Build Complete" is published
UploadStartEarly(B) ==
    /\ bpc \in {"complete", "upload"}
    /\ \E ok \in PublishOutcomes(B) : publishLog("main", 0, <<"Starting to upload">>, ok)
    /\ bpc' = "walk"
    /\ UNCHANGED <<proc, pipe, pipeOpen, rpc, rbuf, nemit, nfile, puts, apiVars>>

\* uploadFiles: publishLog("Starting to upload")
UploadStart(B) ==
    /\ bpc = "upload"
    /\ \E ok \in PublishOutcomes(B) : publishLog("main", 0, <<"Starting to upload">>, ok)
    /\ bpc' = "walk"
    /\ UNCHANGED <<proc, pipe, pipeOpen, rpc, rbuf, nemit, nfile, puts, apiVars>>

\* uploadFiles, walk callback up to PutObject: a walk or open error returns
\* before anything is published, else publishLog("uploading <relPath>")
WalkFile(B) ==
    /\ bpc = "walk"
    /\ nfile < B.files
    /\ \E walkOk \in BOOLEAN :
         IF walkOk
         THEN /\ \E ok \in PublishOutcomes(B) : publishLog("main", 0, <<"uploading f">>, ok)
              /\ bpc' = "put"
         ELSE /\ bpc' = "fatal_upload"
              /\ UNCHANGED <<pubLog, queue>>
    /\ UNCHANGED <<proc, pipe, pipeOpen, rpc, rbuf, nemit, nfile, puts, apiVars>>

\* uploadFiles, walk callback: s3Client.PutObject, publishLog("uploaded ...")
PutObject(B) ==
    /\ bpc = "put"
    /\ \E putOk \in BOOLEAN :
         IF putOk
         THEN /\ \E ok \in PublishOutcomes(B) : publishLog("main", 0, <<"uploaded f">>, ok)
              /\ puts' = puts + 1
              /\ nfile' = nfile + 1
              /\ bpc' = "walk"
         ELSE /\ bpc' = "fatal_upload"
              /\ UNCHANGED <<pubLog, queue, puts, nfile>>
    /\ UNCHANGED <<proc, pipe, pipeOpen, rpc, rbuf, nemit, apiVars>>

\* uploadFiles: publishLog("Done"); runBuild and main return, the process ends
UploadDone(B) ==
    /\ bpc = "walk"
    /\ \E ok \in PublishOutcomes(B) : publishLog("main", 0, <<"Done">>, ok)
    /\ bpc' = "exited"
    /\ UNCHANGED <<proc, pipe, pipeOpen, rpc, rbuf, nemit, nfile, puts, apiVars>>

BuildCore(B) ==
    \/ NewBuildServer
    \/ RunBuildStarted(B)
    \/ CmdStart
    \/ \E s \in Streams : ProcWrite(s, B)
    \/ ProcExit
    \/ \E s \in Streams : ReaderRead(s)
    \/ \E s \in Streams : ReaderPublish(s, B)
    \/ CmdWait
    \/ PublishComplete(B)

\* the build server as the streaming specifications see it
BuildStream(B) ==
    \/ NewBuildServer
    \/ RunBuildStarted(B)
    \/ CmdStart
    \/ \E s \in Streams : ReaderTurn(s, B)
    \/ ProcExit
    \/ CmdWait
    \/ PublishComplete(B)

\* uploadFiles
BuildUpload(B) ==
    \/ UploadStart(B)
    \/ WalkFile(B)
    \/ PutObject(B)
    \/ UploadDone(B)

(***************************************************************************)
(* API server: api-server-go/main.go                                       *)
(***************************************************************************)

\* JSON values of a request field that are no string
Absent == "<absent>"
NotString == "<number>"
IsString(x) == x \notin {Absent, NotString}

\* inbound frames: json = FALSE is a frame ReadJSON cannot decode into a map
NoRequest == [json |-> TRUE, action |-> Absent, channel |-> Absent]
BadJSON == [json |-> FALSE, action |-> Absent, channel |-> Absent]
Subscribes == [json : {TRUE}, action : {"subscribe"}, channel : Patterns]
Requests ==
    Subscribes \cup {BadJSON}
    \cup [json : {TRUE}, action : {"subscribe"}, channel : {Absent, NotString}]
    \cup [json : {TRUE}, action : {Absent, NotString, "ping"}, channel : {"logs:A"}]

\* the frames the viewer sends in SpecConn, and the viewers in SpecFan:
\* requests that are ignored change nothing there
ConnRequests == Subscribes \cup {BadJSON}
FanRequests == {r \in Subscribes : r.channel = "logs:A"} \cup {BadJSON}

\* mutant of IsSubscribe: any string action subscribes
IsSubscribeAnyAction(m) == IsString(m.action)

\* handleWebSocket's test of a decoded request
IsSubscribe(m) == IsString(m.action) /\ m.action = "subscribe"
HasChannel(m) == IsString(m.channel)

ViewerOf(f) == f[1]
FwdsOf(v) == {f \in FIds : ViewerOf(f) = v}

\* the goroutine running handleWebSocket of connection v
Handler(v) == <<v, 0>>

\* goroutines inside conn.WriteJSON of connection v
WritersOf(v) ==
    {f \in FwdsOf(v) : fpc[f] = "write"}
        \cup (IF hpc[v] = "ack" THEN {Handler(v)} ELSE {})

\* conn.WriteJSON begins in goroutine w on connection v: gorilla connections
\* support one concurrent writer, so every write overlapping it is raced
BeginWrite(w, v) ==
    IF WritersOf(v) = {} THEN raced ELSE raced \cup WritersOf(v) \cup {w}

\* what a finished write of goroutine w may have done to the byte stream of
\* connection v: a raced write shares gorilla's write buffer with the other
\* writer, so the frames on the wire may be intact or corrupted
Wire(w, v) ==
    IF w \in raced THEN {corrupt[v], TRUE} ELSE {corrupt[v]}

\* upgrader.Upgrade succeeded, defer conn.Close()
Upgrade(v) ==
    /\ crashed = ""
    /\ conn[v] = "none"
    /\ conn' = [conn EXCEPT ![v] = "open"]
    /\ hpc' = [hpc EXCEPT ![v] = "read"]
    /\ UNCHANGED <<buildVars, nsub, req, ignored, fpc, pattern, sub, queue, cur,
                   raced, sent, corrupt, subAt, lateWrite, crashed>>

\* the viewer goes away or the network fails: reads and writes now fail
PeerGone(v) ==
    /\ crashed = ""
    /\ conn[v] = "open"
    /\ conn' = [conn EXCEPT ![v] = "broken"]
    /\ UNCHANGED <<buildVars, hpc, nsub, req, ignored, fpc, pattern, sub, queue,
                   cur, raced, sent, corrupt, subAt, lateWrite, crashed>>

\* handleWebSocket: conn.ReadJSON(&msg) returns a frame of the viewer
ReadJSON(v, R) ==
    /\ crashed = ""
    /\ hpc[v] = "read"
    /\ conn[v] = "open"
    /\ \E m \in R :
         /\ req' = [req EXCEPT ![v] = m]
         /\ hpc' = [hpc EXCEPT ![v] = "got"]
    /\ UNCHANGED <<buildVars, conn, nsub, ignored, fpc, pattern, sub, queue, cur,
                   raced, sent, corrupt, subAt, lateWrite, crashed>>

\* handleWebSocket: conn.ReadJSON fails on a dead connection: break, and the
\* deferred conn.Close() runs
ReadError(v) ==
    /\ crashed = ""
    /\ hpc[v] = "read"
    /\ conn[v] = "broken"
    /\ conn' = [conn EXCEPT ![v] = "closed"]
    /\ hpc' = [hpc EXCEPT ![v] = "done"]
    /\ UNCHANGED <<buildVars, nsub, req, ignored, fpc, pattern, sub, queue, cur,
                   raced, sent, corrupt, subAt, lateWrite, crashed>>

\* handleWebSocket, loop body after ReadJSON returned: an undecodable frame
\* is a read error (break, Close); a subscribe request with a string channel
\* starts `go api.subscribeAndForward(conn, channel)` and enters
\* conn.WriteJSON of the confirmation; anything else goes back to ReadJSON
Dispatch(v, bound) ==
    /\ crashed = ""
    /\ hpc[v] = "got"
    /\ LET m == req[v]
           f == <<v, nsub[v] + 1>>
       IN  IF ~m.json
           THEN /\ conn' = [conn EXCEPT ![v] = "closed"]
                /\ hpc' = [hpc EXCEPT ![v] = "done"]
                /\ UNCHANGED <<nsub, ignored, fpc, pattern, raced>>
           ELSE IF IsSubscribe(m) /\ HasChannel(m)
           THEN /\ nsub[v] < bound
                /\ nsub' = [nsub EXCEPT ![v] = @ + 1]
                /\ fpc' = [fpc EXCEPT ![f] = "spawned"]
                /\ pattern' = [pattern EXCEPT ![f] = m.channel]
                /\ hpc' = [hpc EXCEPT ![v] = "ack"]
                /\ raced' = BeginWrite(Handler(v), v)
                /\ UNCHANGED <<conn, ignored>>
           ELSE /\ hpc' = [hpc EXCEPT ![v] = "read"]
                /\ ignored' = [ignored EXCEPT ![v] = TRUE]
                /\ UNCHANGED <<conn, nsub, fpc, pattern, raced>>
    /\ req' = [req EXCEPT ![v] = NoRequest]
    /\ UNCHANGED <<buildVars, sub, queue, cur, sent, corrupt, subAt, lateWrite, crashed>>

\* mutant of AckFrame: the confirmation names the channel of the first
\* forwarder of the connection
AckFrameFirst(v) ==
    [kind |-> "ack", by |-> nsub[v], id |-> 0,
     message |-> <<"Joined ", pattern[<<v, 1>>]>>]

\* the confirmation frame {"message": "Joined <channel>"}
AckFrame(v) ==
    [kind |-> "ack", by |-> nsub[v], id |-> 0,
     message |-> <<"Joined ", pattern[<<v, nsub[v]>>]>>]

\* handleWebSocket: conn.WriteJSON of the confirmation returns; its error is
\* not looked at
AckDone(v) ==
    /\ crashed = ""
    /\ hpc[v] = "ack"
    /\ IF conn[v] = "open"
       THEN /\ sent' = [sent EXCEPT ![v] = Append(@, AckFrame(v))]
            /\ \E c \in Wire(Handler(v), v) : corrupt' = [corrupt EXCEPT ![v] = c]
       ELSE UNCHANGED <<sent, corrupt>>
    /\ hpc' = [hpc EXCEPT ![v] = "read"]
    /\ raced' = raced \ {Handler(v)}
    /\ UNCHANGED <<buildVars, conn, nsub, req, ignored, fpc, pattern, sub, queue,
                   cur, subAt, lateWrite, crashed>>

\* mutant of PSubscribe: the new subscription is handed the events already
\* published on matching channels
PSubscribeReplay(f) ==
    /\ crashed = ""
    /\ fpc[f] = "spawned"
    /\ fpc' = [fpc EXCEPT ![f] = "range"]
    /\ sub' = [sub EXCEPT ![f] = TRUE]
    /\ subAt' = [subAt EXCEPT ![f] = Len(pubLog)]
    /\ queue' = [queue EXCEPT ![f] =
                   [i \in 1..Len(SelectSeq(pubLog, LAMBDA e :
                                   e.ok /\ Match(pattern[f], e.channel))) |->
                      LET e == SelectSeq(pubLog, LAMBDA x :
                                   x.ok /\ Match(pattern[f], x.channel))[i]
                      IN  [id |-> e.id, channel |-> e.channel, payload |-> e.payload]]]
    /\ UNCHANGED <<buildVars, conn, hpc, nsub, req, ignored, pattern, cur,
                   raced, sent, corrupt, lateWrite, crashed>>

\* subscribeAndForward: api.subscriber.PSubscribe, defer pubsub.Close(),
\* pubsub.Channel()
PSubscribe(f) ==
    /\ crashed = ""
    /\ fpc[f] = "spawned"
    /\ fpc' = [fpc EXCEPT ![f] = "range"]
    /\ sub' = [sub EXCEPT ![f] = TRUE]
    /\ subAt' = [subAt EXCEPT ![f] = Len(pubLog)]
    /\ UNCHANGED <<buildVars, conn, hpc, nsub, req, ignored, pattern, queue, cur,
                   raced, sent, corrupt, lateWrite, crashed>>

\* mutant of NextMsg: the newest buffered message instead of the oldest
NextMsgNewest(q) == q[Len(q)]

\* `for msg := range ch`: the message the loop turn gets
NextMsg(q) == Head(q)

\* mutant of Receive: a payload json.Unmarshal rejects ends the loop (break
\* in place of continue), and the deferred pubsub.Close() runs
ReceiveStopOnBad(f) ==
    /\ crashed = ""
    /\ fpc[f] = "range"
    /\ queue[f] # <<>>
    /\ IF Unmarshal(NextMsg(queue[f]).payload).err
       THEN /\ fpc' = [fpc EXCEPT ![f] = "done"]
            /\ sub' = [sub EXCEPT ![f] = FALSE]
            /\ queue' = [queue EXCEPT ![f] = <<>>]
            /\ UNCHANGED <<cur, raced, lateWrite>>
       ELSE /\ queue' = [queue EXCEPT ![f] = Tail(@)]
            /\ fpc' = [fpc EXCEPT ![f] = "write"]
            /\ cur' = [cur EXCEPT ![f] = NextMsg(queue[f])]
            /\ raced' = BeginWrite(f, ViewerOf(f))
            /\ lateWrite' = [lateWrite EXCEPT ![ViewerOf(f)] =
                               @ \/ conn[ViewerOf(f)] = "closed"]
            /\ UNCHANGED sub
    /\ UNCHANGED <<buildVars, conn, hpc, nsub, req, ignored, pattern, sent,
                   corrupt, subAt, crashed>>

\* subscribeAndForward, one turn of `for msg := range ch` up to the call of
\* conn.WriteJSON: a payload json.Unmarshal rejects is skipped
Receive(f) ==
    /\ crashed = ""
    /\ fpc[f] = "range"
    /\ queue[f] # <<>>
    /\ queue' = [queue EXCEPT ![f] = Tail(@)]
    /\ IF Unmarshal(NextMsg(queue[f]).payload).err
       THEN UNCHANGED <<fpc, cur, raced, lateWrite>>
       ELSE /\ fpc' = [fpc EXCEPT ![f] = "write"]
            /\ cur' = [cur EXCEPT ![f] = NextMsg(queue[f])]
            /\ raced' = BeginWrite(f, ViewerOf(f))
            /\ lateWrite' = [lateWrite EXCEPT ![ViewerOf(f)] =
                               @ \/ conn[ViewerOf(f)] = "closed"]
    /\ UNCHANGED <<buildVars, conn, hpc, nsub, req, ignored, pattern, sub, sent,
                   corrupt, subAt, crashed>>

\* the log frame {"message": msg.Payload}
LogFrame(f) ==
    [kind |-> "log", by |-> f[2], id |-> cur[f].id,
     message |-> cur[f].payload]

\* mutant of WriteDone: the loop is left without pubsub.Close()
WriteDoneNoClose(f) ==
    /\ crashed = ""
    /\ fpc[f] = "write"
    /\ IF conn[ViewerOf(f)] = "open"
       THEN /\ sent' = [sent EXCEPT ![ViewerOf(f)] = Append(@, LogFrame(f))]
            /\ \E c \in Wire(f, ViewerOf(f)) :
                 corrupt' = [corrupt EXCEPT ![ViewerOf(f)] = c]
            /\ fpc' = [fpc EXCEPT ![f] = "range"]
       ELSE /\ fpc' = [fpc EXCEPT ![f] = "done"]
            /\ UNCHANGED <<sent, corrupt>>
    /\ cur' = [cur EXCEPT ![f] = [id |-> 0]]
    /\ raced' = raced \ {f}
    /\ UNCHANGED <<buildVars, conn, hpc, nsub, req, ignored, pattern, subAt,
                   lateWrite, crashed, sub, queue>>

\* subscribeAndForward: conn.WriteJSON returns; on an error the loop is left
\* and the deferred pubsub.Close() runs
WriteDone(f) ==
    /\ crashed = ""
    /\ fpc[f] = "write"
    /\ IF conn[ViewerOf(f)] = "open"
       THEN /\ sent' = [sent EXCEPT ![ViewerOf(f)] = Append(@, LogFrame(f))]
            /\ \E c \in Wire(f, ViewerOf(f)) :
                 corrupt' = [corrupt EXCEPT ![ViewerOf(f)] = c]
            /\ fpc' = [fpc EXCEPT ![f] = "range"]
            /\ UNCHANGED <<sub, queue>>
       ELSE /\ fpc' = [fpc EXCEPT ![f] = "done"]
            /\ sub' = [sub EXCEPT ![f] = FALSE]
            /\ queue' = [queue EXCEPT ![f] = <<>>]
            /\ UNCHANGED <<sent, corrupt>>
    /\ cur' = [cur EXCEPT ![f] = [id |-> 0]]
    /\ raced' = raced \ {f}
    /\ UNCHANGED <<buildVars, conn, hpc, nsub, req, ignored, pattern, subAt,
                   lateWrite, crashed>>

\* a raced write panics ("concurrent write to websocket connection").  In a
\* forwarder goroutine nothing recovers it and the API server process dies:
\* every connection and every subscription goes with it.  In the handler
\* gin's Recovery catches it after the deferred conn.Close().
Panic(w) ==
    /\ crashed = ""
    /\ w \in raced
    /\ IF w[2] = 0
       THEN /\ conn' = [conn EXCEPT ![w[1]] = "closed"]
            /\ hpc' = [hpc EXCEPT ![w[1]] = "done"]
            /\ raced' = raced \ {w}
            /\ UNCHANGED <<fpc, sub, queue, cur, crashed>>
       ELSE /\ crashed' = ViewerOf(w)
            /\ conn' = [v \in Viewers |-> IF conn[v] = "none" THEN "none" ELSE "closed"]
            /\ hpc' = [v \in Viewers |-> IF hpc[v] = "idle" THEN "idle" ELSE "dead"]
            /\ fpc' = [f \in FIds |-> IF fpc[f] = "none" THEN "none" ELSE "dead"]
            /\ sub' = [f \in FIds |-> FALSE]
            /\ queue' = [f \in FIds |-> <<>>]
            /\ cur' = [f \in FIds |-> [id |-> 0]]
            /\ raced' = {}
    /\ UNCHANGED <<buildVars, nsub, req, ignored, pattern, sent, corrupt, subAt,
                   lateWrite>>

\* one connection, with at most `bound` forwarders
ViewerNext(v, bound, R) ==
    \/ Upgrade(v)
    \/ PeerGone(v)
    \/ ReadJSON(v, R)
    \/ ReadError(v)
    \/ Dispatch(v, bound)
    \/ AckDone(v)
    \/ \E f \in FwdsOf(v) : PSubscribe(f)
    \/ \E f \in FwdsOf(v) : Receive(f)
    \/ \E f \in FwdsOf(v) : WriteDone(f)
    \/ \E w \in FwdsOf(v) \cup {Handler(v)} : Panic(w)

BuildNext(B) == BuildCore(B) \/ BuildUpload(B)

BuildInit ==
    /\ bpc = "new"
    /\ proc = "none"
    /\ pipe = [s \in Streams |-> <<>>]
    /\ pipeOpen = [s \in Streams |-> TRUE]
    /\ rpc = [s \in Streams |-> "none"]
    /\ rbuf = [s \in Streams |-> [k |-> 0, text |-> <<>>]]
    /\ nemit = [s \in Streams |-> 0]
    /\ nfile = 0
    /\ pubLog = <<>>
    /\ puts = 0

ApiInit ==
    /\ conn = [v \in Viewers |-> "none"]
    /\ hpc = [v \in Viewers |-> "idle"]
    /\ nsub = [v \in Viewers |-> 0]
    /\ fpc = [f \in FIds |-> "none"]
    /\ pattern = [f \in FIds |-> ""]
    /\ sub = [f \in FIds |-> FALSE]
    /\ queue = [f \in FIds |-> <<>>]
    /\ cur = [f \in FIds |-> [id |-> 0]]
    /\ raced = {}
    /\ sent = [v \in Viewers |-> <<>>]
    /\ corrupt = [v \in Viewers |-> FALSE]
    /\ subAt = [f \in FIds |-> -1]
    /\ req = [v \in Viewers |-> NoRequest]
    /\ ignored = [v \in Viewers |-> FALSE]
    /\ lateWrite = [v \in Viewers |-> FALSE]
    /\ crashed = ""

Init == BuildInit /\ ApiInit

\* the build server alone
SpecBuild == Init /\ [][BuildNext(FullBudget)]_vars

\* one viewer connection with several subscriptions, and the build server up
\* to the end of the build command
ConnNext == BuildStream(StreamBudget) \/ ViewerNext("v1", MaxSubs, ConnRequests)
SpecConn == Init /\ [][ConnNext]_vars

\* two viewer connections, and the build server up to the end of the build
\* command
FanNext ==
    BuildStream(StreamBudget) \/ \E v \in Viewers : ViewerNext(v, FanSubs, FanRequests)
SpecFan == Init /\ [][FanNext]_vars

\* one viewer connection with one subscription and every kind of request, and
\* a build command with more output
OneNext == BuildStream(OneBudget) \/ ViewerNext("v1", OneSubs, Requests)
SpecOne == Init /\ [][OneNext]_vars
\* SpecConn with the fairness the Go scheduler gives: a goroutine that can
\* take its next step eventually takes it.  Nothing is assumed of the viewer,
\* of the build command or of the outcome of a raced write.
FairConn ==
    /\ SpecConn
    /\ WF_vars(RunBuildStarted(StreamBudget))
    /\ WF_vars(CmdStart)
    /\ WF_vars(CmdWait)
    /\ WF_vars(PublishComplete(StreamBudget))
    /\ WF_vars(ReadError("v1"))
    /\ WF_vars(Dispatch("v1", MaxSubs))
    /\ WF_vars(AckDone("v1"))
    /\ \A f \in FwdsOf("v1") :
         WF_vars(PSubscribe(f)) /\ WF_vars(Receive(f)) /\ WF_vars(WriteDone(f))

(***************************************************************************)
(* Claims.                                                                 *)
(***************************************************************************)

\* frames of forwarder f among the frames written to its viewer
LogFrames(f) ==
    SelectSeq(sent[ViewerOf(f)], LAMBDA fr : fr.kind = "log" /\ fr.by = f[2])

\* publish i reached the broker while f's subscription was open and matches it
Due(f, i) ==
    /\ pubLog[i].ok
    /\ subAt[f] >= 0
    /\ i > subAt[f]
    /\ Match(pattern[f], pubLog[i].channel)

IsTerminalText(i, text) ==
    pubLog[i].pub = "main" /\ pubLog[i].payload = LogPayload(text)

\* C1: single-writer discipline: on every viewer connection at most one
\* conn.WriteJSON is in progress at any time, counting the confirmation write
\* of handleWebSocket and the payload writes of all its forwarders.
C1_SingleWriter ==
    \A v \in Viewers : Cardinality(WritersOf(v)) <= 1

\* C2: no subscription leak: once a viewer connection is closed, every
\* forwarder started for it eventually has exited with its broker
\* subscription closed.
C2_NoSubscriptionLeak ==
    \A v \in Viewers :
        (conn[v] = "closed") ~>
            (\A f \in FwdsOf(v) : ~sub[f] /\ fpc[f] \in {"none", "done", "dead"})

\* C3: no write after close: no forwarder begins a conn.WriteJSON on a
\* connection that handleWebSocket has already closed.
C3_NoWriteAfterClose ==
    \A v \in Viewers : ~lateWrite[v]

\* C4: complete delivery: when a forwarder on a healthy connection has
\* drained its subscription, every event published on a matching channel
\* since it subscribed has been written to the viewer exactly once, as
\* {"message": <raw published payload>}.
C4_CompleteDelivery ==
    \A f \in FIds :
        LET v == ViewerOf(f)
        IN  (sub[f] /\ fpc[f] = "range" /\ queue[f] = <<>>
                /\ conn[v] = "open" /\ ~corrupt[v])
            => \A i \in 1..Len(pubLog) :
                 Due(f, i) =>
                   Cardinality({k \in 1..Len(sent[v]) :
                       sent[v][k] = [kind |-> "log", by |-> f[2], id |-> i,
                                     message |-> pubLog[i].payload]}) = 1

\* events a forwarder has written, is writing or still holds in its buffer
Handled(f) ==
    {LogFrames(f)[k].id : k \in 1..Len(LogFrames(f))}
        \cup ({cur[f].id} \ {0})
        \cup {queue[f][k].id : k \in {j \in 1..Len(queue[f]) :
                                        Decodable(queue[f][j].payload)}}

\* events a forwarder forwards when nothing disturbs it
Expected(f) ==
    {i \in 1..Len(pubLog) : Due(f, i) /\ Decodable(pubLog[i].payload)}

\* C5: failure isolation: whatever happens on the other viewers' connections,
\* a viewer whose own connection has not failed gets the events its
\* forwarders are due (a connection that went down with the process because
\* of another connection counts as not having failed itself).
C5_FailureIsolation ==
    \A w \in Viewers : \A f \in FwdsOf(w) :
        (subAt[f] >= 0 /\ (conn[w] = "open" \/ crashed \notin {"", w}))
        => Handled(f) = Expected(f)

\* C6: per-publisher ordering: the log frames one forwarder writes for the
\* publishes of one publisher task appear in the order of those publishes
\* (and, for a reader goroutine, in the order the chunks were written).
C6_PublishOrder ==
    \A f \in FIds :
        LET fr == LogFrames(f)
        IN  \A j, k \in 1..Len(fr) :
              (j < k /\ pubLog[fr[j].id].pub = pubLog[fr[k].id].pub)
              => /\ fr[j].id < fr[k].id
                 /\ pubLog[fr[j].id].pub \in Streams
                      => pubLog[fr[j].id].src < pubLog[fr[k].id].src

\* C6 witness: a forwarder has written two chunks of the stdout reader
C6_Witness ==
    \E f \in FIds :
        LET fr == LogFrames(f)
        IN  \E j, k \in 1..Len(fr) :
              j < k /\ pubLog[fr[j].id].pub = "stdout"
                    /\ pubLog[fr[k].id].pub = "stdout"

\* C7: terminal event: a build whose command was started has, when the build
\* server ends, published "Build Complete" after exit status zero and
\* "Build Failed" after a non-zero exit status.
C7_TerminalEvent ==
    /\ (BuildExited /\ proc = "exit0")
         => \E i \in 1..Len(pubLog) : IsTerminalText(i, <<"Build Complete">>)
    /\ (BuildExited /\ proc = "exit1")
         => \E i \in 1..Len(pubLog) : IsTerminalText(i, <<"Build Failed">>)

\* C8: terminal event is last: once "Build Complete" is published no reader
\* goroutine holds a chunk it has read and not published, and no chunk is
\* published after it.
C8_TerminalLast ==
    \A i \in 1..Len(pubLog) :
        IsTerminalText(i, <<"Build Complete">>)
        => /\ \A s \in Streams : rpc[s] # "publish"
           /\ \A j \in 1..Len(pubLog) : pubLog[j].pub \in Streams => j < i

\* number of Publish calls made for chunk k of stream s
TimesPublished(s, k) ==
    Cardinality({i \in 1..Len(pubLog) : pubLog[i].pub = s /\ pubLog[i].src = k})

\* C9: no lost output: no chunk is published twice, and when the build
\* server ends every chunk the command wrote to stdout or stderr has been
\* published once.
C9_NoLostOutput ==
    \A s \in Streams : \A k \in 1..nemit[s] :
        /\ TimesPublished(s, k) <= 1
        /\ BuildExited => TimesPublished(s, k) = 1

\* a decodable request the specification calls invalid: its action is absent,
\* not a string or not "subscribe", or its channel is absent or not a string
Invalid(m) ==
    /\ m.json
    /\ \/ m.action \in {Absent, NotString}
       \/ m.action # "subscribe"
       \/ m.channel \in {Absent, NotString}

\* C10: a well-formed but invalid request is ignored: the step of
\* handleWebSocket that handles it returns to ReadJSON and changes nothing
\* else (no confirmation, no forwarder, no subscription, connection as it
\* was); and a valid subscribe request handled after one was ignored starts
\* its forwarder and enters the write of its confirmation (whether that
\* write is then disturbed by another writer is the subject of C1).
C10_InvalidIgnored ==
    [][\A v \in Viewers :
         (hpc[v] = "got" /\ hpc'[v] \notin {"got", "dead"})
         => /\ Invalid(req[v])
                 => /\ hpc'[v] = "read"
                    /\ conn' = conn /\ sent' = sent /\ nsub' = nsub
                    /\ fpc' = fpc /\ sub' = sub /\ pattern' = pattern
                    /\ queue' = queue
            /\ (ignored[v] /\ req[v] \in Subscribes)
                 => /\ hpc'[v] = "ack"
                    /\ nsub'[v] = nsub[v] + 1
                    /\ fpc'[<<v, nsub'[v]>>] = "spawned"
                    /\ pattern'[<<v, nsub'[v]>>] = req[v].channel
                    /\ conn'[v] = conn[v]]_vars

\* C10 witness: on a connection that ignored a request, a later subscribe
\* request has been confirmed and its forwarder is subscribed
C10_Witness ==
    \E v \in Viewers :
        /\ ignored[v]
        /\ conn[v] = "open"
        /\ sub[<<v, 1>>]
        /\ \E k \in 1..Len(sent[v]) : sent[v][k].kind = "ack"

\* C11: bad subscribe JSON is ignored: the step of handleWebSocket that
\* handles a frame ReadJSON cannot decode returns to ReadJSON with the
\* connection as it was, writes nothing to the viewer and starts nothing.
C11_BadJsonIgnored ==
    [][\A v \in Viewers :
         (hpc[v] = "got" /\ ~req[v].json /\ hpc'[v] \notin {"got", "dead"})
         => /\ hpc'[v] = "read"
            /\ conn'[v] = conn[v]
            /\ sent' = sent /\ nsub' = nsub /\ fpc' = fpc /\ sub' = sub]_vars

\* the confirmation frames among the frames written to viewer v
AckFrames(q) == SelectSeq(q, LAMBDA fr : fr.kind = "ack")

\* C12: every well-formed subscribe request handled on a connection starts
\* exactly one forwarder, for the channel the request names; the
\* confirmation write that follows on the open connection adds exactly one
\* frame "Joined <channel>"; a forwarder subscribes at the broker once; and
\* no forwarder and no confirmation comes from any other step (a
\* confirmation write cut short by a concurrent writer is the subject of C1).
C12_OnePerRequest ==
    [][\A v \in Viewers :
         /\ (hpc[v] = "got" /\ req[v] \in Subscribes /\ hpc'[v] \notin {"got", "dead"})
            => LET f == <<v, nsub[v] + 1>>
               IN  /\ nsub'[v] = nsub[v] + 1
                   /\ fpc[f] = "none" /\ fpc'[f] = "spawned"
                   /\ pattern'[f] = req[v].channel
                   /\ \A g \in FIds \ {f} :
                        fpc'[g] = fpc[g] /\ pattern'[g] = pattern[g]
                   /\ hpc'[v] = "ack"
                   /\ sent' = sent
         /\ (hpc[v] = "ack" /\ hpc'[v] = "read" /\ conn[v] = "open")
            => sent'[v] = Append(sent[v],
                    [kind |-> "ack", by |-> nsub[v], id |-> 0,
                     message |-> <<"Joined ", pattern[<<v, nsub[v]>>]>>])
         /\ (hpc[v] # "got") => nsub'[v] = nsub[v]
         /\ (hpc[v] # "ack" \/ hpc'[v] # "read")
            => AckFrames(sent'[v]) = AckFrames(sent[v])
         /\ \A f \in FwdsOf(v) :
              (sub'[f] /\ ~sub[f]) => (fpc[f] = "spawned" /\ fpc'[f] = "range")]_vars

\* C12 witness: two subscribe requests on one connection, for different
\* channels, have given two subscribed forwarders and two confirmations
C12_Witness ==
    \E v \in Viewers :
        /\ nsub[v] = 2
        /\ sub[<<v, 1>>] /\ sub[<<v, 2>>]
        /\ pattern[<<v, 1>>] # pattern[<<v, 2>>]
        /\ Len(AckFrames(sent[v])) = 2
        /\ AckFrames(sent[v])[1].message # AckFrames(sent[v])[2].message

\* C13: session uniqueness: a connection never has two forwarders subscribed
\* at the broker with the same pattern, and no two log frames written to a
\* viewer carry the same published event for the same pattern.
C13_SessionUnique ==
    \A v \in Viewers :
        /\ \A f, g \in FwdsOf(v) :
             (f # g /\ sub[f] /\ sub[g]) => pattern[f] # pattern[g]
        /\ \A j, k \in 1..Len(sent[v]) :
             (j < k /\ sent[v][j].kind = "log" /\ sent[v][k].kind = "log"
                    /\ sent[v][j].id = sent[v][k].id)
             => pattern[<<v, sent[v][j].by>>] # pattern[<<v, sent[v][k].by>>]

\* publish i reached the broker and its channel matches the pattern of f
Matching(f, i) == pubLog[i].ok /\ Match(pattern[f], pubLog[i].channel)

\* events forwarder f holds in its buffer, is writing or has written
Seen(f) ==
    {LogFrames(f)[k].id : k \in 1..Len(LogFrames(f))}
        \cup ({cur[f].id} \ {0})
        \cup {queue[f][k].id : k \in 1..Len(queue[f])}

\* C14: no backfill: after every step, each event a forwarder holds or has
\* written was published after the forwarder subscribed; and a publish made
\* while no subscribed forwarder matches its channel leaves every buffer and
\* every viewer's frames as they were.
C14_NoBackfill ==
    [][/\ \A f \in FIds : \A i \in Seen(f)' : subAt'[f] >= 0 /\ i > subAt'[f]
       /\ (Len(pubLog') = Len(pubLog) + 1
             /\ ~\E f \in FIds : sub[f] /\ Matching(f, Len(pubLog))')
          => (queue' = queue /\ cur' = cur /\ sent' = sent)]_vars

\* C14 witness: a forwarder that subscribed after a matching event was
\* published has written a later event to its viewer
C14_Witness ==
    \E f \in FIds :
        /\ subAt[f] >= 1
        /\ \E i \in 1..subAt[f] : Matching(f, i)
        /\ Len(LogFrames(f)) >= 1

\* where the main goroutine stands after publishLog(message) has returned
AfterPublish(message) ==
    CASE message = <<"Build Started...">> -> "start"
      [] message = <<"Build Complete">> -> "upload"
      [] message = <<"Starting to upload">> -> "walk"
      [] message = <<"uploading f">> -> "put"
      [] message = <<"uploaded f">> -> "walk"
      [] message = <<"Done">> -> "exited"

\* C15: publishing never fails the build: whatever Publish returns and with
\* no subscriber on the channel, a publishLog call of the main goroutine
\* is followed by the next statement of runBuild or uploadFiles, a
\* publishLog call of a reader goroutine by the reader's next Read, and the
\* call changes neither the build command nor the pipes; so a build ends in
\* log.Fatalf only for a start, exit-status or upload error.
C15_PublishNeverFails ==
    [][(Len(pubLog') = Len(pubLog) + 1)
       => LET e == pubLog'[Len(pubLog')]
          IN  /\ e.pub = "main" => (bpc' = AfterPublish(e.message) /\ rpc' = rpc)
              /\ e.pub \in Streams => (bpc' = bpc /\ rpc'[e.pub] = "read")
              /\ proc' = proc /\ pipeOpen' = pipeOpen
              /\ bpc' = "fatal_build" => proc' = "exit1"]_vars

\* C15 witness: a build in which the broker rejected a Publish has uploaded
\* its file and ended normally
C15_Witness ==
    /\ bpc = "exited"
    /\ puts >= 1
    /\ \E i \in 1..Len(pubLog) : ~pubLog[i].ok

\* the events uploadFiles publishes
UploadTexts == {<<"Starting to upload">>, <<"uploading f">>, <<"uploaded f">>,
                <<"Done">>}

\* positions of the main goroutine inside uploadFiles, and after it
InUpload == bpc \in {"walk", "put", "fatal_upload", "exited"}

UploadAttempted ==
    \E i \in 1..Len(pubLog) : pubLog[i].message \in UploadTexts

\* C16, as the specification states it: a build whose command exited with a
\* non-zero status has attempted the upload by the time it reports failure.
C16_UploadRegardless ==
    (bpc = "fatal_build") => UploadAttempted

\* C16, amended: once the command has exited with a non-zero status the
\* main goroutine is in cmd.Wait or has reported the failure, and the upload
\* is never attempted: no event of uploadFiles, no PutObject.
C16_NoUploadAfterFailure ==
    (proc = "exit1")
    => /\ bpc \in {"wait", "fatal_build"}
       /\ ~UploadAttempted
       /\ ~InUpload
       /\ puts = 0

\* C16 witness: the command was started, exited non-zero, and the build has
\* reported the failure
C16_Witness ==
    /\ proc = "exit1"
    /\ bpc = "fatal_build"
    /\ \E i \in 1..Len(pubLog) : pubLog[i].message = <<"Build Started...">>

\* C17: upload only after a successful build: every event of uploadFiles
\* comes after a "Build Complete" event, and uploadFiles is entered, or an
\* object put, only when the command has exited with status zero.
C17_UploadAfterSuccess ==
    /\ \A i \in 1..Len(pubLog) :
         pubLog[i].message \in UploadTexts
         => \E j \in 1..(i - 1) : IsTerminalText(j, <<"Build Complete">>)
    /\ (InUpload \/ puts > 0 \/ UploadAttempted)
         => /\ proc = "exit0"
            /\ \E j \in 1..Len(pubLog) : IsTerminalText(j, <<"Build Complete">>)

\* C17 witness: a file has been put after "Build Complete"
C17_Witness ==
    /\ puts >= 1
    /\ proc = "exit0"
    /\ \E i \in 1..Len(pubLog) : pubLog[i].message = <<"uploaded f">>

\* C18: start failure is fatal: when the command could not be started,
\* no reader goroutine exists, the command never runs, neither "Build
\* Complete" nor an event of uploadFiles is published, nothing is put, and
\* the build server does nothing more (no retry).
C18_StartFailureFatal ==
    [][(bpc' = "fatal_start")
       => /\ proc' = "none"
          /\ \A s \in Streams : rpc'[s] = "none" /\ nemit'[s] = 0
          /\ \A i \in 1..Len(pubLog') :
               pubLog'[i].message \notin (UploadTexts \cup {<<"Build Complete">>})
          /\ puts' = 0
          /\ (bpc = "fatal_start") => (buildVars' = buildVars)]_vars

\* C18 witness: cmd.Start failed after "Build Started..." was published
C18_Witness ==
    /\ bpc = "fatal_start"
    /\ Len(pubLog) = 1
    /\ pubLog[1].message = <<"Build Started...">>

\* C19: handle released exactly once on every exit: the step by which a
\* forwarder leaves its loop closes its own subscription, which was open,
\* and leaves every other forwarder as it was; a subscription is closed by
\* no step of a running process but this one; and a forwarder that has left
\* stays there (until the process ends) with its subscription closed and
\* writes nothing more.
C19_ReleasedOnce ==
    [][\A f \in FIds :
         /\ (fpc[f] # "done" /\ fpc'[f] = "done")
            => /\ sub[f] /\ ~sub'[f]
               /\ \A g \in FIds \ {f} :
                    /\ sub'[g] = sub[g] /\ fpc'[g] = fpc[g]
                    /\ queue'[g] = queue[g] /\ cur'[g] = cur[g]
         /\ (sub[f] /\ ~sub'[f]) => fpc'[f] \in {"done", "dead"}
         /\ (fpc[f] = "done")
            => /\ fpc'[f] \in {"done", "dead"} /\ ~sub'[f]
               /\ cur'[f] = cur[f]
               /\ LogFrames(f)' = LogFrames(f)]_vars

\* C19 witness: of two forwarders of a closed connection one has left its
\* loop on a write error while the other is still subscribed
C19_Witness ==
    \E f, g \in FIds :
        /\ f # g /\ ViewerOf(f) = ViewerOf(g)
        /\ conn[ViewerOf(f)] = "closed"
        /\ fpc[f] = "done" /\ ~sub[f]
        /\ fpc[g] = "range" /\ sub[g]

\* C20: encode/decode round trip: the payload of every publishLog call
\* decodes with json.Unmarshal, and the log field of the result is the text
\* publishLog was called with.
C20_RoundTrip ==
    \A i \in 1..Len(pubLog) :
        LET u == Unmarshal(pubLog[i].payload)
        IN  ~u.err /\ u.Log = pubLog[i].message

\* an undecodable payload was delivered to forwarder f before event i
SkippedBefore(f, i) ==
    \E j \in 1..(i - 1) : Due(f, j) /\ Unmarshal(pubLog[j].payload).err

\* C21: undecodable payloads are skipped, not fatal: a forwarder in its loop
\* never leaves it, closes its subscription or drops a buffered message but
\* by taking the oldest one; if that payload does not decode, nothing is
\* written and the forwarder stays subscribed in its loop; if it decodes, it
\* is the one written next, also after payloads that were skipped.
C21_UndecodableSkipped ==
    [][\A f \in FIds :
         (fpc[f] = "range" /\ crashed' = "")
         => /\ fpc'[f] \in {"range", "write"}
            /\ sub'[f] = sub[f]
            /\ (queue'[f] # queue[f] /\ Len(queue'[f]) <= Len(queue[f]))
               => /\ queue'[f] = Tail(queue[f])
                  /\ IF Unmarshal(Head(queue[f]).payload).err
                     THEN /\ fpc'[f] = "range"
                          /\ sent' = sent /\ cur' = cur
                     ELSE /\ fpc'[f] = "write"
                          /\ cur'[f] = Head(queue[f])]_vars

\* C21 witness: a forwarder has written an event that was published after
\* an undecodable payload it had been delivered
C21_Witness ==
    \E f \in FIds : \E k \in 1..Len(LogFrames(f)) :
        /\ SkippedBefore(f, LogFrames(f)[k].id)
        /\ sub[f] /\ fpc[f] = "range"

\* C22: acknowledgement precedes logs: every log frame written to a viewer
\* by the forwarder of a subscribe request comes after the confirmation
\* frame of that request.
C22_AckBeforeLogs ==
    \A v \in Viewers : \A j \in 1..Len(sent[v]) :
        sent[v][j].kind = "log"
        => \E i \in 1..(j - 1) :
             sent[v][i].kind = "ack" /\ sent[v][i].by = sent[v][j].by
====
